---- MODULE Spec2Model ----
(***************************************************************************)
(* Model of aws/table_aws_guardduty_threat_intel_set.go: the list resolver *)
(* (listGuardDutyThreatIntelSets), the get resolver                        *)
(* (getGuardDutyThreatIntelSet) and the aka transform                      *)
(* (getAwsGuardDutyThreatIntelSetAkas).                                    *)
(*                                                                         *)
(* Go strings are sequences of one-character strings, so that              *)
(* concatenation, fmt.Sprint and strings.Contains are computed rather than *)
(* assumed.                                                                *)
(***************************************************************************)
EXTENDS Integers, Sequences, FiniteSets, TLC

\* ---------------------------------------------------------------- bounds
MaxIdLen == 2       \* longest detector id / filter string (filter runs)
MaxListLen == 2     \* longest list-value filter (filter runs)
MaxPages == 2       \* most pages the service holds for one detector
MaxPageLen == 2     \* most identifiers on one page (pagination runs)
MaxAkaLen == 1      \* longest input string of the aka transform
MaxAkaCalls == 2    \* hydrated rows per aka run

\* aws.Int64(50): the page size the resolver asks for
MaxResults == 50

VARIABLES
  \* list resolver
  detectorID,   \* h.Item.(detectorInfo).DetectorID
  qual,         \* d.KeyColumnQuals["detector_id"]
  pages,        \* what the service holds for the detector, page by page
  pc,           \* position of the resolver
  pageIdx,      \* pages delivered to the callback so far
  pos,          \* index of the next identifier of the current page
  emitted,      \* rows handed to d.StreamLeafListItem, in order
  requests,     \* ListThreatIntelSets requests sent
  stopped,      \* RowsRemaining has returned 0
  svcErr,       \* error of the service call that failed, "nil" if none
  err,          \* error the resolver returned, "nil" if none
  \* get resolver
  hItem,        \* h.Item of the get call, Nil for a point lookup
  getQuals,     \* d.KeyColumnQuals of the get call
  getPc,        \* position of the get call
  params,       \* the GetThreatIntelSetInput sent
  getRet,       \* value returned by getGuardDutyThreatIntelSet
  getErr,       \* error returned by getGuardDutyThreatIntelSet
  queryRows,    \* rows of the point lookup's result set
  queryErr,     \* error of the point lookup's query
  \* aka transform
  akaIn,        \* partition, region, account id and the row
  akaOut        \* results of the calls so far

listVars == <<detectorID, qual, pages, pc, pageIdx, pos, emitted, requests,
              stopped, svcErr, err>>
getVars == <<hItem, getQuals, getPc, params, getRet, getErr, queryRows, queryErr>>
akaVars == <<akaIn, akaOut>>
vars == <<listVars, getVars, akaVars>>

Nil == [nil |-> TRUE]
NoErr == "nil"

\* ---------------------------------------------------------------- strings
Alphabet == {"a", "b"}

\* all strings over chars of length at most n
RECURSIVE StrsUpTo(_, _)
StrsUpTo(chars, n) ==
  IF n = 0 THEN {<<>>}
  ELSE LET shorter == StrsUpTo(chars, n - 1)
       IN shorter \cup {Append(s, c) : s \in {t \in shorter : Len(t) = n - 1}, c \in chars}

\* all sequences over S of length at most n
RECURSIVE SeqsUpTo(_, _)
SeqsUpTo(S, n) ==
  IF n = 0 THEN {<<>>}
  ELSE LET shorter == SeqsUpTo(S, n - 1)
       IN shorter \cup {Append(s, x) : s \in {t \in shorter : Len(t) = n - 1}, x \in S}

\* strings.Contains(s, substr)
StringsContains(s, substr) ==
  \E i \in 0..(Len(s) - Len(substr)) : SubSeq(s, i + 1, i + Len(substr)) = substr

\* fmt.Sprint of a slice of strings: "[" elements separated by one space "]"
RECURSIVE SprintElems(_)
SprintElems(l) ==
  IF l = <<>> THEN <<>>
  ELSE IF Len(l) = 1 THEN l[1]
  ELSE l[1] \o <<" ">> \o SprintElems(Tail(l))

FmtSprint(l) == <<"[">> \o SprintElems(l) \o <<"]">>

\* ---------------------------------------------------------------- quals
NoQual == [kind |-> "none", str |-> <<>>, list |-> <<>>]
StringQual(s) == [kind |-> "string", str |-> s, list |-> <<>>]
ListQual(l) == [kind |-> "list", str |-> <<>>, list |-> l]

\* proto.QualValue.GetStringValue: "" unless the value is a string
GetStringValue(q) == IF q.kind = "string" THEN q.str ELSE <<>>

\* proto.QualValue.GetListValue: nil unless the value is a list
GetListValue(q) == IF q.kind = "list" THEN q.list ELSE <<>>

\* getListValues: the string values of a list qual
getListValues(l) == l

SkipDetectorNoNegation(q, d) ==
  IF q.kind # "none"
  THEN IF GetStringValue(q) # <<>>
       THEN GetStringValue(q) # <<>> /\ GetStringValue(q) # d
       ELSE IF Len(getListValues(GetListValue(q))) > 0
            THEN StringsContains(FmtSprint(getListValues(GetListValue(q))), d)
            ELSE FALSE
  ELSE FALSE

\* lines 119-129: TRUE when the resolver returns nil, nil before the list call
SkipDetector(q, d) ==
  IF q.kind # "none"
  THEN IF GetStringValue(q) # <<>>
       THEN GetStringValue(q) # <<>> /\ GetStringValue(q) # d
       ELSE IF Len(getListValues(GetListValue(q))) > 0
            THEN ~StringsContains(FmtSprint(getListValues(GetListValue(q))), d)
            ELSE FALSE
  ELSE FALSE


\* ---------------------------------------------------------------- list resolver
ThreatIds == {<<"x">>, <<"y">>}
SessionErrors == {"SessionError"}
ListErrors == {"InternalServerErrorException", "AccessDeniedException"}

\* what RowsRemaining can return: nothing left, or something left
RowsRemainingValues == {0, 1}

\* every service content of at most np pages of at most pl identifiers each;
\* a successful ListThreatIntelSets request always delivers one page, and no
\* page is longer than the MaxResults asked for
PageSets(np, pl) ==
  {ps \in SeqsUpTo(SeqsUpTo(ThreatIds, pl), np) :
     Len(ps) >= 1 /\ \A i \in 1..Len(ps) : Len(ps[i]) <= MaxResults}

\* every detector_id qual: absent, a string, or a list of strings
QualSet(sl, ll) ==
  {NoQual}
    \cup {StringQual(s) : s \in StrsUpTo(Alphabet, sl)}
    \cup {ListQual(l) : l \in SeqsUpTo(StrsUpTo(Alphabet, sl), ll)}

\* detector ids come from GuardDuty and are never empty
DetectorIds(sl) == StrsUpTo(Alphabet, sl) \ {<<>>}

\* lines 141-144: the summary row streamed for one identifier
threatIntelSetInfo(result, d) == [ThreatIntelSetID |-> result, DetectorID |-> d]

CallbackStopsNever(remaining) == FALSE

\* lines 147-149: the callback returns false when no rows remain
CallbackStops(remaining) == remaining = 0

PageCallbackContinueInverted(isLast) == isLast

\* line 151: the callback's result at the end of a page
PageCallbackContinue(isLast) == ~isLast

ListReturnErrNil(e) == NoErr

\* line 155: the resolver returns the paginator's error
ListReturnErr(e) == e

\* lines 112-115: GuardDutyService fails and the resolver returns its error
SessionFails ==
  /\ pc = "start"
  /\ \E e \in SessionErrors : err' = e
  /\ pc' = "done"
  /\ UNCHANGED <<detectorID, qual, pages, pageIdx, pos, emitted, requests,
                 stopped, svcErr>>

\* lines 116-129: the detector does not match the qual: return nil, nil
FilterSkips ==
  /\ pc = "start"
  /\ SkipDetector(qual, detectorID)
  /\ pc' = "done"
  /\ err' = NoErr
  /\ UNCHANGED <<detectorID, qual, pages, pageIdx, pos, emitted, requests,
                 stopped, svcErr>>

\* lines 116-137: the detector passes and the paginator starts
FilterPasses ==
  /\ pc = "start"
  /\ ~SkipDetector(qual, detectorID)
  /\ pc' = "fetch"
  /\ UNCHANGED <<detectorID, qual, pages, pageIdx, pos, emitted, requests,
                 stopped, svcErr, err>>

\* line 137: the paginator's request succeeds and the callback gets the page
FetchOk ==
  /\ pc = "fetch"
  /\ pageIdx < Len(pages)
  /\ requests' = requests + 1
  /\ pageIdx' = pageIdx + 1
  /\ pos' = 1
  /\ pc' = "page"
  /\ UNCHANGED <<detectorID, qual, pages, emitted, stopped, svcErr, err>>

\* lines 137, 155: the paginator's request fails; the resolver returns the error
FetchFails ==
  /\ pc = "fetch"
  /\ pageIdx < Len(pages)
  /\ requests' = requests + 1
  /\ \E e \in ListErrors : svcErr' = e /\ err' = ListReturnErr(e)
  /\ pc' = "done"
  /\ UNCHANGED <<detectorID, qual, pages, pageIdx, pos, emitted, stopped>>

\* lines 140-149: stream one identifier, then ask whether rows remain
EmitRow ==
  /\ pc = "page"
  /\ pos <= Len(pages[pageIdx])
  /\ emitted' = Append(emitted, threatIntelSetInfo(pages[pageIdx][pos], detectorID))
  /\ \E remaining \in RowsRemainingValues :
       /\ stopped' = (stopped \/ remaining = 0)
       /\ IF CallbackStops(remaining)
          THEN pc' = "done" /\ err' = NoErr /\ pos' = pos
          ELSE pc' = "page" /\ err' = err /\ pos' = pos + 1
  /\ UNCHANGED <<detectorID, qual, pages, pageIdx, requests, svcErr>>

\* line 151: the page is exhausted; the paginator goes on only when the
\* callback says so and the service announced a further page
PageEnd ==
  /\ pc = "page"
  /\ pos > Len(pages[pageIdx])
  /\ IF PageCallbackContinue(pageIdx = Len(pages)) /\ pageIdx < Len(pages)
     THEN pc' = "fetch" /\ err' = err
     ELSE pc' = "done" /\ err' = NoErr
  /\ UNCHANGED <<detectorID, qual, pages, pageIdx, pos, emitted, requests,
                 stopped, svcErr>>

NextList ==
  /\ \/ SessionFails
     \/ FilterSkips
     \/ FilterPasses
     \/ FetchOk
     \/ FetchFails
     \/ EmitRow
     \/ PageEnd
  /\ UNCHANGED <<getVars, akaVars>>

\* ---------------------------------------------------------------- get resolver
GetIds == {<<"a">>, <<"b">>}
GetOutputs == {[Name |-> "n1"], [Name |-> "n2"]}
GetErrors == {"InvalidInputException", "BadRequestException",
              "AccessDeniedException", "InternalServerErrorException"}

IgnoreCodesOnlyInvalidInput == {"InvalidInputException"}

\* line 30: the error codes the Get config declares ignorable
IgnoreCodes == {"InvalidInputException", "BadRequestException"}

\* isNotFoundError: the error's code is one of the given codes
isNotFoundError(notFoundErrors, e) == e \in notFoundErrors

\* lines 170-178: the pair comes from the list row when there is one, and
\* from the key-column quals otherwise
ResolveIds(item, quals) ==
  IF item # Nil
  THEN [detectorID |-> item.DetectorID, id |-> item.ThreatIntelSetID]
  ELSE [detectorID |-> quals.detector_id, id |-> quals.threat_intel_set_id]

\* lines 180-183
GetThreatIntelSetInput(ids) ==
  [DetectorId |-> ids.detectorID, ThreatIntelSetId |-> ids.id]

GetResultSwapped(op, id, d) ==
  [Output |-> op, ThreatIntelSetID |-> d, DetectorID |-> id]

\* line 191: threatIntelSetInfo{*op, id, detectorID}
GetResult(op, id, d) ==
  [Output |-> op, ThreatIntelSetID |-> id, DetectorID |-> d]

\* lines 165-168: GuardDutyService fails
GetSessionFails ==
  /\ getPc = "start"
  /\ \E e \in SessionErrors : getErr' = e
  /\ getRet' = Nil
  /\ getPc' = "returned"
  /\ UNCHANGED <<hItem, getQuals, params, queryRows, queryErr>>

\* lines 170-191: GetThreatIntelSet answers
GetCallOk ==
  /\ getPc = "start"
  /\ LET ids == ResolveIds(hItem, getQuals)
     IN /\ params' = GetThreatIntelSetInput(ids)
        /\ \E op \in GetOutputs : getRet' = GetResult(op, ids.id, ids.detectorID)
  /\ getErr' = NoErr
  /\ getPc' = "returned"
  /\ UNCHANGED <<hItem, getQuals, queryRows, queryErr>>

\* lines 170-189: GetThreatIntelSet fails; the error is returned as it is
GetCallFails ==
  /\ getPc = "start"
  /\ params' = GetThreatIntelSetInput(ResolveIds(hItem, getQuals))
  /\ \E e \in GetErrors : getErr' = e
  /\ getRet' = Nil
  /\ getPc' = "returned"
  /\ UNCHANGED <<hItem, getQuals, queryRows, queryErr>>

\* lines 27-33: the host's get call of a point lookup applies the Get
\* config's ShouldIgnoreErrorFunc to the resolver's error
HostGetResult ==
  /\ getPc = "returned"
  /\ hItem = Nil
  /\ IF getErr = NoErr
     THEN queryRows' = <<getRet>> /\ queryErr' = NoErr
     ELSE IF isNotFoundError(IgnoreCodes, getErr)
          THEN queryRows' = <<>> /\ queryErr' = NoErr
          ELSE queryRows' = <<>> /\ queryErr' = getErr
  /\ getPc' = "done"
  /\ UNCHANGED <<hItem, getQuals, params, getRet, getErr>>

NextGet ==
  /\ \/ GetSessionFails
     \/ GetCallOk
     \/ GetCallFails
     \/ HostGetResult
  /\ UNCHANGED <<listVars, akaVars>>

\* ---------------------------------------------------------------- aka transform
AkaAlphabet == {"a", "-"}
AkaStrings == StrsUpTo(AkaAlphabet, MaxAkaLen) \ {<<>>}
CommonColumnsErrors == {"GetCallerIdentityError"}

akaNoSlash(commonColumnData, region, data) ==
  <<"a", "r", "n", ":">> \o commonColumnData.Partition
    \o <<":", "g", "u", "a", "r", "d", "d", "u", "t", "y", ":">> \o region
    \o <<":">> \o commonColumnData.AccountId
    \o <<":", "d", "e", "t", "e", "c", "t", "o", "r">>
    \o data.DetectorID
    \o <<"/", "t", "h", "r", "e", "a", "t", "i", "n", "t", "e", "l", "s", "e", "t", "/">>
    \o data.ThreatIntelSetID

\* line 207
aka(commonColumnData, region, data) ==
  <<"a", "r", "n", ":">> \o commonColumnData.Partition
    \o <<":", "g", "u", "a", "r", "d", "d", "u", "t", "y", ":">> \o region
    \o <<":">> \o commonColumnData.AccountId
    \o <<":", "d", "e", "t", "e", "c", "t", "o", "r">> \o <<"/">>
    \o data.DetectorID
    \o <<"/", "t", "h", "r", "e", "a", "t", "i", "n", "t", "e", "l", "s", "e", "t", "/">>
    \o data.ThreatIntelSetID

\* lines 198-209: the lookup of the common columns answers
AkasOk ==
  /\ Len(akaOut) < MaxAkaCalls
  /\ LET c == [Partition |-> akaIn.partition, AccountId |-> akaIn.accountId]
     IN akaOut' = Append(akaOut,
                     [value |-> <<aka(c, akaIn.region, akaIn.data)>>, err |-> NoErr])
  /\ UNCHANGED akaIn

\* lines 202-205: the lookup of the common columns fails
AkasFails ==
  /\ Len(akaOut) < MaxAkaCalls
  /\ \E e \in CommonColumnsErrors :
       akaOut' = Append(akaOut, [value |-> Nil, err |-> e])
  /\ UNCHANGED akaIn

NextAka ==
  /\ \/ AkasOk
     \/ AkasFails
  /\ UNCHANGED <<listVars, getVars>>

\* ---------------------------------------------------------------- specifications
ListIdle ==
  /\ detectorID = <<"a">>
  /\ qual = NoQual
  /\ pages = <<<<>>>>
  /\ pc = "done"
  /\ pageIdx = 0
  /\ pos = 1
  /\ emitted = <<>>
  /\ requests = 0
  /\ stopped = FALSE
  /\ svcErr = NoErr
  /\ err = NoErr

GetIdle ==
  /\ hItem = Nil
  /\ getQuals = [detector_id |-> <<>>, threat_intel_set_id |-> <<>>]
  /\ getPc = "done"
  /\ params = Nil
  /\ getRet = Nil
  /\ getErr = NoErr
  /\ queryRows = <<>>
  /\ queryErr = NoErr

AkaIdle ==
  /\ akaIn = Nil
  /\ akaOut = <<>>

\* one call of the list resolver for one detector
InitListWith(sl, ll, np, pl) ==
  /\ detectorID \in DetectorIds(sl)
  /\ qual \in QualSet(sl, ll)
  /\ pages \in PageSets(np, pl)
  /\ pc = "start"
  /\ pageIdx = 0
  /\ pos = 1
  /\ emitted = <<>>
  /\ requests = 0
  /\ stopped = FALSE
  /\ svcErr = NoErr
  /\ err = NoErr
  /\ GetIdle
  /\ AkaIdle

\* pagination: many page layouts, short quals
Init == InitListWith(1, 1, MaxPages, MaxPageLen)

\* filtering: many quals, short page layouts
InitFilter == InitListWith(MaxIdLen, MaxListLen, MaxPages, 1)

\* one call of the get resolver: a hydration of a list row (the quals are
\* those of the list query, absent ones read as "") or a point lookup (both
\* key columns given)
InitGet ==
  /\ \/ /\ hItem \in {threatIntelSetInfo(t, d) : t \in GetIds, d \in GetIds}
        /\ getQuals \in [detector_id : GetIds \cup {<<>>},
                         threat_intel_set_id : GetIds \cup {<<>>}]
     \/ /\ hItem = Nil
        /\ getQuals \in [detector_id : GetIds, threat_intel_set_id : GetIds]
  /\ getPc = "start"
  /\ params = Nil
  /\ getRet = Nil
  /\ getErr = NoErr
  /\ queryRows = <<>>
  /\ queryErr = NoErr
  /\ ListIdle
  /\ AkaIdle

\* the hydration of the akas column of the rows of one query
InitAka ==
  /\ akaIn \in [partition : AkaStrings, region : AkaStrings, accountId : AkaStrings,
                data : {threatIntelSetInfo(t, d) : t \in AkaStrings, d \in AkaStrings}]
  /\ akaOut = <<>>
  /\ ListIdle
  /\ GetIdle

Spec == Init /\ [][NextList]_vars
SpecFilter == InitFilter /\ [][NextList]_vars
SpecGet == InitGet /\ [][NextGet]_vars
SpecAka == InitAka /\ [][NextAka]_vars

\* ---------------------------------------------------------------- properties
RECURSIVE Flatten(_)
Flatten(ps) == IF ps = <<>> THEN <<>> ELSE Head(ps) \o Flatten(Tail(ps))

IsPrefix(s, t) == Len(s) <= Len(t) /\ SubSeq(t, 1, Len(s)) = s

\* the rows the service's identifiers call for, in page order
ExpectedRows ==
  [i \in 1..Len(Flatten(pages)) |->
     [ThreatIntelSetID |-> Flatten(pages)[i], DetectorID |-> detectorID]]

\* C1: when the list call was made, no page fetch failed and the consumer
\* never reported zero rows remaining, the rows emitted are exactly the
\* service's identifiers, one row each, in page order and in the order within
\* each page, and exactly one request per page was sent; at any moment the
\* rows emitted so far are a prefix of that sequence and no request goes
\* beyond the last page.
C1_ListEmitsEveryIdentifierOnce ==
  /\ IsPrefix(emitted, ExpectedRows)
  /\ requests <= Len(pages)
  /\ (pc = "done" /\ requests > 0 /\ svcErr = NoErr /\ ~stopped)
       => (emitted = ExpectedRows /\ requests = Len(pages) /\ err = NoErr)

C1_Witness ==
  /\ pc = "done" /\ svcErr = NoErr /\ ~stopped
  /\ Len(pages) = MaxPages
  /\ Len(emitted) >= 3
  /\ \E i, j \in 1..Len(emitted) : i # j /\ emitted[i] = emitted[j]

\* C2: once RowsRemaining has returned 0 after an emitted row, no further
\* page is requested and no further row is emitted.
C2_EarlyStopEndsPagination ==
  [][stopped => (requests' = requests /\ emitted' = emitted)]_vars

\* stopped inside a page (the row is not the page's last) with pages left
C2_Witness ==
  /\ stopped /\ pc = "done"
  /\ pageIdx < Len(pages)
  /\ pos < Len(pages[pageIdx])
  /\ Len(emitted) = 1

\* C3: a single-value filter different from the detector id gives zero rows.
C3_SingleValueMismatchEmitsNothing ==
  (qual.kind = "string" /\ qual.str # detectorID) => emitted = <<>>

\* C4: a list-value filter whose stringified form does not contain the
\* detector id gives zero rows.
C4_ListValueMismatchEmitsNothing ==
  (qual.kind = "list" /\ ~StringsContains(FmtSprint(qual.list), detectorID))
    => emitted = <<>>

\* C7: a failed page fetch ends the resolver with exactly that error; after
\* it no page is requested and no row is emitted; rows emitted earlier stay.
C7_PageFailureAborts ==
  [][/\ IsPrefix(emitted, emitted')
     /\ svcErr' # NoErr => (pc' = "done" /\ err' = svcErr')
     /\ svcErr # NoErr => (requests' = requests /\ emitted' = emitted)]_vars

C7_Witness ==
  /\ svcErr # NoErr /\ pc = "done" /\ err = svcErr
  /\ pageIdx = 1 /\ Len(emitted) = MaxPageLen

\* the detector satisfies the qual: no qual, the same string, or an element
DetectorSatisfiesQual ==
  \/ qual.kind = "none"
  \/ qual.kind = "string" /\ qual.str = detectorID
  \/ qual.kind = "list" /\ \E i \in 1..Len(qual.list) : qual.list[i] = detectorID

\* C10: a detector that satisfies the qual is never skipped: once the
\* session exists the list call is made for it; and every row emitted
\* carries the detector's id.
C10_FilterKeepsMatchingDetector ==
  /\ (pc = "done" /\ err \notin SessionErrors /\ DetectorSatisfiesQual)
       => requests >= 1
  /\ \A i \in 1..Len(emitted) : emitted[i].DetectorID = detectorID

C10_Witness ==
  /\ pc = "done"
  /\ qual.kind = "list" /\ Len(qual.list) = MaxListLen
  /\ qual.list[MaxListLen] = detectorID /\ qual.list[1] # detectorID
  /\ requests >= 1 /\ Len(emitted) >= 1

\* C5: a detail record carries the pair that was sent in the request: the
\* list row's pair for a hydration, the key columns' pair for a point lookup.
C5_DetailPairIsRequestedPair ==
  getRet # Nil =>
    /\ getRet.DetectorID = params.DetectorId
    /\ getRet.ThreatIntelSetID = params.ThreatIntelSetId
    /\ hItem # Nil => /\ params.DetectorId = hItem.DetectorID
                      /\ params.ThreatIntelSetId = hItem.ThreatIntelSetID
    /\ hItem = Nil => /\ params.DetectorId = getQuals.detector_id
                      /\ params.ThreatIntelSetId = getQuals.threat_intel_set_id

C5_Witness ==
  /\ getRet # Nil /\ hItem # Nil
  /\ hItem.DetectorID # hItem.ThreatIntelSetID
  /\ getQuals.detector_id # hItem.DetectorID
  /\ getQuals.threat_intel_set_id # hItem.ThreatIntelSetID

\* C6: a point lookup whose get call fails with InvalidInputException or
\* BadRequestException gives an empty result and no error; with any other
\* error code it gives that error.
C6_NotFoundIsEmptyResult ==
  (getPc = "done" /\ hItem = Nil /\ getErr # NoErr) =>
    IF getErr \in {"InvalidInputException", "BadRequestException"}
    THEN queryRows = <<>> /\ queryErr = NoErr
    ELSE queryRows = <<>> /\ queryErr = getErr

C6_Witness ==
  /\ getPc = "done" /\ hItem = Nil
  /\ getErr = "BadRequestException"
  /\ queryRows = <<>> /\ queryErr = NoErr

RECURSIVE JoinWith(_, _)
JoinWith(parts, sep) ==
  IF Len(parts) = 1 THEN parts[1]
  ELSE parts[1] \o sep \o JoinWith(Tail(parts), sep)

\* arn:<partition>:guardduty:<region>:<accountId>:detector/<d>/threatintelset/<t>
ExpectedAka ==
  JoinWith(<< <<"a", "r", "n">>,
              akaIn.partition,
              <<"g", "u", "a", "r", "d", "d", "u", "t", "y">>,
              akaIn.region,
              akaIn.accountId,
              JoinWith(<< <<"d", "e", "t", "e", "c", "t", "o", "r">>,
                          akaIn.data.DetectorID,
                          <<"t", "h", "r", "e", "a", "t", "i", "n", "t", "e", "l", "s", "e", "t">>,
                          akaIn.data.ThreatIntelSetID >>, <<"/">>) >>, <<":">>)

\* C8: every successful call returns a list of exactly one string, the arn
\* built from the partition, region, account id, detector id and set id;
\* calls with the same inputs return the same list.
C8_AkaIsTheArn ==
  /\ \A i \in 1..Len(akaOut) :
       akaOut[i].err = NoErr =>
         /\ Len(akaOut[i].value) = 1
         /\ akaOut[i].value[1] = ExpectedAka
  /\ \A i, j \in 1..Len(akaOut) :
       (akaOut[i].err = NoErr /\ akaOut[j].err = NoErr)
         => akaOut[i].value = akaOut[j].value

C8_Witness ==
  /\ Len(akaOut) = MaxAkaCalls
  /\ \A i \in 1..Len(akaOut) : akaOut[i].err = NoErr
  /\ akaIn.partition # akaIn.accountId
  /\ akaIn.data.DetectorID # akaIn.data.ThreatIntelSetID

====
